---- MODULE Spec2Model ----
(***************************************************************************)
(* StealthIMSession: the bounded TTL cache (cache/memcache.go), the        *)
(* three-tier session resolver (cache/session.go), the gRPC handlers and   *)
(* the reload coordinator (grpc/session.go), the session cleaner           *)
(* (autoclean) and process startup (main).                                 *)
(*                                                                         *)
(* Time is counted in seconds.  Strings are sequences of one-character     *)
(* strings, so that strconv.ParseInt and strconv.FormatInt are computed.   *)
(***************************************************************************)
EXTENDS Integers, Sequences, FiniteSets, TLC

\* ---------------------------------------------------------------- bounds
NumKeys == 2
MaxTicks == 2
MaxLongTicks == 1
MaxUid == 1

\* ------------------------------------------------------ program constants
Sentinel == -1
RedisTTL == 3600
SecondsPerHour == 3600
MaxInt32 == 2147483647

\* the keys of LocalCache taken alone
Keys == 1..NumKeys
\* two session ids: the one a call is about and one competing for LocalCache
Tokens == {1, 2}
TimeStep == RedisTTL \div 2
\* a step of the clock after which every cache entry and session has aged out
LongStep == 2 * SecondsPerHour
MemTimeouts == {TimeStep, 2 * TimeStep}
MemMaxsizes == 1..NumKeys
ExpireHoursValues == {1}
UidInputs == 0..MaxUid

VARIABLES
  now,            \* time.Now(), seconds
  config,         \* config.LatestConfig
  items,          \* Cache.items: key -> item
  janitorPc,      \* position of deleteExpired: "idle" or "phase2"
  janitorNow,     \* deleteExpired's local now (0 outside a cycle)
  keysToDelete,   \* deleteExpired's local keysToDelete
  inserted,       \* history: key -> the Set that produced the entry now held
  redis,          \* Distributed Cache: key -> [value, expireAt]
  db,             \* Record Store, table session_db: session_id -> row
  pendingDel,     \* session_ids whose accepted DELETE is not applied yet
  created,        \* history: the <<session_id, uid>> of every row ever inserted
  recentDel,      \* history: session_ids for which Del returned 0 within the TTL window
  op,             \* the last call of interest: its name and arguments
  calls,          \* Get calls in flight: caller -> position and locals
  mainlock,       \* gateway.mainlock: 0 when free, else the caller holding it
  cleaners,       \* the SessionCleaner instances made so far, by number
  sessionCleaner, \* grpc.sessionCleaner: 0 for nil, else an instance number
  reload          \* the caller of Start and Stop (ReloadSessionService): its
                  \* position, flag and count, and where Stop found the loops

cacheVars == <<items, janitorPc, janitorNow, keysToDelete, inserted>>
storeVars == <<redis, db, pendingDel, created, recentDel>>
procVars == <<calls, mainlock, cleaners, sessionCleaner, reload>>
vars == <<now, config, items, janitorPc, janitorNow, keysToDelete, inserted,
          redis, db, pendingDel, created, recentDel, op,
          calls, mainlock, cleaners, sessionCleaner, reload>>

\* ------------------------------------------------------------- LocalCache
NoItem == [value |-> 0, expiration |-> 0]
NoVictim == 0
NoInsert == [t0 |-> -1, ttl |-> 0, value |-> 0]
NoOp == [name |-> "None"]
NoRow == [kind |-> "none"]
NoReload == [pc |-> "idle", changed |-> FALSE, count |-> 0, at |-> <<>>]
\* no Get call in flight, no cleaner made, no reload under way
NoProcs ==
  /\ calls = <<>>
  /\ mainlock = 0
  /\ cleaners = <<>>
  /\ sessionCleaner = 0
  /\ reload = NoReload

\* c.items[key]: a Go map read gives the zero item for an absent key
Lookup(its, key) == IF key \in DOMAIN its THEN its[key] ELSE NoItem

evictRandom(its, victim) ==
  IF Cardinality(DOMAIN its) = 0
    THEN its
    ELSE [k \in DOMAIN its \ {victim} |-> its[k]]

MustEvictMutant(its, key, cfg) ==
  Cardinality(DOMAIN its) > cfg.MemMaxsize /\ Lookup(its, key) = NoItem

\* the condition of Cache.Set under which it calls evictRandom
MustEvict(its, key, cfg) ==
  Cardinality(DOMAIN its) >= cfg.MemMaxsize /\ Lookup(its, key) = NoItem

\* the keys rand.Intn may pick when Cache.Set evicts for key
Victims(its, key, cfg) ==
  IF MustEvict(its, key, cfg) /\ DOMAIN its # {} THEN DOMAIN its ELSE {NoVictim}

Expiration(t, cfg) == t + cfg.MemTimeout

CacheSet(its, key, value, t, cfg, victim) ==
  LET kept == IF MustEvict(its, key, cfg) THEN evictRandom(its, victim) ELSE its
  IN [k \in DOMAIN kept \cup {key} |->
        IF k = key THEN [value |-> value, expiration |-> Expiration(t, cfg)]
                   ELSE kept[k]]

ExpiredMutant(it, t) == t >= it.expiration

\* now > item.expiration, the test of Get and of both phases of deleteExpired
Expired(it, t) == t > it.expiration

CacheGet(its, key, t) ==
  IF key \notin DOMAIN its \/ Expired(its[key], t)
    THEN [value |-> 0, found |-> FALSE]
    ELSE [value |-> its[key].value, found |-> TRUE]

CacheDelete(its, key) == [k \in DOMAIN its \ {key} |-> its[k]]

\* the history of Set calls follows the map: an evicted or deleted key has none
InsertedAfterSet(ins, its, key, value, t, cfg, victim) ==
  [k \in DOMAIN ins |->
     IF k = key THEN [t0 |-> t, ttl |-> cfg.MemTimeout, value |-> value]
     ELSE IF MustEvict(its, key, cfg) /\ k = victim THEN NoInsert
     ELSE ins[k]]

\* ------------------------------------------------- LocalCache operations
CSet(key, value) ==
  \E victim \in Victims(items, key, config) :
    /\ items' = CacheSet(items, key, value, now, config, victim)
    /\ inserted' = InsertedAfterSet(inserted, items, key, value, now, config, victim)
    /\ op' = [name |-> "Set", key |-> key, value |-> value,
              absent |-> key \notin DOMAIN items,
              full |-> Cardinality(DOMAIN items) = config.MemMaxsize]
    /\ UNCHANGED <<now, config, janitorPc, janitorNow, keysToDelete, storeVars>>
    /\ UNCHANGED procVars

CGet(key) ==
  /\ op' = [name |-> "Get", key |-> key,
            value |-> CacheGet(items, key, now).value,
            found |-> CacheGet(items, key, now).found]
  /\ UNCHANGED <<now, config, cacheVars, storeVars>>
  /\ UNCHANGED procVars

CDelete(key) ==
  /\ items' = CacheDelete(items, key)
  /\ inserted' = [inserted EXCEPT ![key] = NoInsert]
  /\ op' = NoOp
  /\ UNCHANGED <<now, config, janitorPc, janitorNow, keysToDelete, storeVars>>
  /\ UNCHANGED procVars

\* deleteExpired, phase 1 (read lock): collect the expired keys
JanitorPhase1 ==
  /\ janitorPc = "idle"
  /\ LET collected == {k \in DOMAIN items : Expired(items[k], now)}
     IN /\ keysToDelete' = collected
        /\ janitorNow' = IF collected = {} THEN 0 ELSE now
        /\ janitorPc' = IF collected = {} THEN "idle" ELSE "phase2"
  /\ op' = NoOp
  /\ UNCHANGED <<now, config, items, inserted, storeVars>>
  /\ UNCHANGED procVars

StillExpiredMutant(its, key, collected, t) == key \in collected

\* deleteExpired, phase 2: found && now > item.expiration, for a collected key
StillExpired(its, key, collected, t) ==
  key \in collected /\ key \in DOMAIN its /\ Expired(its[key], t)

\* deleteExpired, phase 2 (write lock): delete those still expired
JanitorPhase2 ==
  /\ janitorPc = "phase2"
  /\ items' = [k \in {x \in DOMAIN items :
                        ~StillExpired(items, x, keysToDelete, janitorNow)}
                 |-> items[k]]
  /\ janitorPc' = "idle"
  /\ keysToDelete' = {}
  /\ janitorNow' = 0
  /\ op' = [name |-> "Janitor", deleted |-> DOMAIN items \ DOMAIN items',
            spared |-> keysToDelete \cap DOMAIN items']
  /\ UNCHANGED <<now, config, inserted, storeVars>>
  /\ UNCHANGED procVars

Tick ==
  /\ now < MaxTicks * TimeStep
  /\ now' = now + TimeStep
  /\ op' = NoOp
  /\ UNCHANGED <<config, cacheVars, storeVars>>
  /\ UNCHANGED procVars

\* config.ReloadConf as the cache sees it: MemTimeout and MemMaxsize are read
\* from config.LatestConfig on every Set
ReloadCacheConfig ==
  /\ \E mt \in MemTimeouts, mm \in MemMaxsizes :
       /\ <<mt, mm>> # <<config.MemTimeout, config.MemMaxsize>>
       /\ config' = [config EXCEPT !.MemTimeout = mt, !.MemMaxsize = mm]
  /\ op' = NoOp
  /\ UNCHANGED <<now, cacheVars, storeVars>>
  /\ UNCHANGED procVars

CacheValues == {Sentinel, 1}

InitCache ==
  /\ now = 0
  /\ config \in [MemTimeout : MemTimeouts, MemMaxsize : MemMaxsizes,
                 ExpireHours : ExpireHoursValues, CleanInterval : {1}]
  /\ items = <<>>
  /\ janitorPc = "idle"
  /\ janitorNow = 0
  /\ keysToDelete = {}
  /\ inserted = [k \in Keys |-> NoInsert]
  /\ redis = <<>>
  /\ db = [k \in Keys |-> NoRow]
  /\ pendingDel = {}
  /\ created = {}
  /\ recentDel = {}
  /\ op = NoOp
  /\ NoProcs

NextCache ==
  \/ \E key \in Keys, value \in CacheValues : CSet(key, value)
  \/ \E key \in Keys : CGet(key)
  \/ \E key \in Keys : CDelete(key)
  \/ JanitorPhase1
  \/ JanitorPhase2
  \/ Tick
  \/ ReloadCacheConfig

SpecCache == InitCache /\ [][NextCache]_vars

\* ------------------------------------------------- claims on LocalCache
Size(its) == Cardinality(DOMAIN its)

\* C4: in every reachable state the number of distinct keys held by
\* LocalCache does not exceed the currently configured maximum size.
C4_SizeWithinConfiguredMax == Size(items) <= config.MemMaxsize

\* C5: with LocalCache holding exactly its configured maximum number of keys,
\* set(k, v) with k absent removes exactly one previously held key and leaves
\* the key count unchanged; set(k, v) with k present removes no key and only
\* replaces k's value and resets k's expiresAt.
C5_SetAtCapacity ==
  [][(op'.name = "Set" /\ Size(items) = config.MemMaxsize) =>
       /\ op'.key \in DOMAIN items'
       /\ items'[op'.key] = [value |-> op'.value,
                             expiration |-> now + config.MemTimeout]
       /\ Size(items') = Size(items)
       /\ \A k \in (DOMAIN items \cap DOMAIN items') \ {op'.key} :
            items'[k] = items[k]
       /\ IF op'.key \in DOMAIN items
            THEN DOMAIN items' = DOMAIN items
            ELSE /\ Cardinality(DOMAIN items \ DOMAIN items') = 1
                 /\ DOMAIN items' \ DOMAIN items = {op'.key}]_vars

\* a set of an absent key at capacity has happened
C5_Witness == op.name = "Set" /\ op.absent /\ op.full /\ Size(items) > 0

\* C6 as stated: an entry set at t0 with TTL T and still held is found with
\* its value strictly before t0+T and not found at t0+T and later.
C6_FoundStrictlyBeforeExpiry ==
  (op.name = "Get" /\ inserted[op.key] # NoInsert) =>
    LET i == inserted[op.key]
    IN /\ now < i.t0 + i.ttl => (op.found /\ op.value = i.value)
       /\ now >= i.t0 + i.ttl => ~op.found

\* C6 amended: an entry set at t0 with TTL T, not overwritten, deleted or
\* evicted since, is found with its value at every time up to and including
\* t0+T and not found at every time strictly after t0+T, whether or not the
\* janitor has removed it.
C6_FoundUntilExpiry ==
  (op.name = "Get" /\ inserted[op.key] # NoInsert) =>
    LET i == inserted[op.key]
    IN /\ now <= i.t0 + i.ttl => (op.found /\ op.value = i.value)
       /\ now > i.t0 + i.ttl => ~op.found

\* a get at exactly t0+T has found the entry
C6_Witness ==
  /\ op.name = "Get"
  /\ inserted[op.key] # NoInsert
  /\ now = inserted[op.key].t0 + inserted[op.key].ttl
  /\ op.found

\* ---------------------------------------------------------------- strconv
DigitChars == <<"0", "1", "2", "3", "4", "5", "6", "7", "8", "9">>
IsDigit(c) == \E i \in 1..10 : DigitChars[i] = c
DigitVal(c) == (CHOOSE i \in 1..10 : DigitChars[i] = c) - 1

RECURSIVE FormatNat(_)
FormatNat(n) ==
  IF n < 10 THEN <<DigitChars[n + 1]>>
            ELSE Append(FormatNat(n \div 10), DigitChars[(n % 10) + 1])

\* strconv.FormatInt(int64(uid), 10)
FormatInt(n) == IF n < 0 THEN <<"-">> \o FormatNat(-n) ELSE FormatNat(n)

TooBig == -2
MinMagnitude == -3
\* the magnitude of a digit string: TooBig when it exceeds 2^31, MinMagnitude
\* when it is 2^31 exactly (the magnitude of the most negative int32)
RECURSIVE Magnitude(_, _)
Magnitude(s, acc) ==
  IF s = <<>> THEN acc
  ELSE IF acc \in {TooBig, MinMagnitude} THEN TooBig
  ELSE IF acc <= (MaxInt32 - DigitVal(Head(s))) \div 10
    THEN Magnitude(Tail(s), acc * 10 + DigitVal(Head(s)))
  ELSE IF acc = MaxInt32 \div 10 /\ DigitVal(Head(s)) = 8
    THEN Magnitude(Tail(s), MinMagnitude)
  ELSE TooBig

ParseFailed == [ok |-> FALSE, val |-> 0]

\* strconv.ParseInt(s, 10, 32): a sign, then decimal digits, within int32
ParseInt(s) ==
  LET neg == s # <<>> /\ Head(s) = "-"
      digits == IF s # <<>> /\ Head(s) \in {"+", "-"} THEN Tail(s) ELSE s
      mag == Magnitude(digits, 0)
  IN IF digits = <<>> \/ \E i \in 1..Len(digits) : ~IsDigit(digits[i])
       THEN ParseFailed
     ELSE IF mag = TooBig \/ (mag = MinMagnitude /\ ~neg) THEN ParseFailed
     ELSE IF mag = MinMagnitude THEN [ok |-> TRUE, val |-> (-MaxInt32) - 1]
     ELSE [ok |-> TRUE, val |-> IF neg THEN -mag ELSE mag]

\* ------------------------------------------------------ Distributed Cache
RedisKey(sessionID) == <<"session:session:", sessionID>>
SentinelString == <<"-", "1">>
NoRedisSet == [key |-> <<>>, value |-> <<>>, ttl |-> 0]

\* gateway.ExecRedisGet: the value, "" for an absent or expired key
ExecRedisGet(rds, key, t, ok) ==
  IF ~ok THEN [err |-> TRUE, value |-> <<>>]
  ELSE IF key \in DOMAIN rds /\ t < rds[key].expireAt
    THEN [err |-> FALSE, value |-> rds[key].value]
    ELSE [err |-> FALSE, value |-> <<>>]

\* gateway.ExecRedisSet: the callers drop its error
ExecRedisSet(rds, req, t, ok) ==
  IF ~ok THEN rds
  ELSE [k \in DOMAIN rds \cup {req.key} |->
          IF k = req.key THEN [value |-> req.value, expireAt |-> t + req.ttl]
                         ELSE rds[k]]

\* ----------------------------------------------------------- Record Store
Int32Cell(v) == [type |-> "Int32", int32 |-> v]
\* a wide integer as its upper and its (signed) lower 32 bits
Int64Cell(hi, lo) == [type |-> "Int64", hi |-> hi, lo |-> lo]
StrCell(str) == [type |-> "Str", str |-> str]
OtherCell == [type |-> "Other"]
Widen(v) == Int64Cell(IF v < 0 THEN -1 ELSE 0, v)

SessionRow(uid, t) == [kind |-> "session", uid |-> uid, createdAt |-> t]

\* the typed variants in which the store may return the uid column of a row
RowResults(row) ==
  { <<Int32Cell(row.uid)>>, <<Widen(row.uid)>>, <<StrCell(FormatInt(row.uid))>> }

SqlError == [err |-> TRUE, data |-> <<>>]

\* responses that carry no usable uid: a row without fields, a string that is
\* no number, a variant that is none of Int32, Int64, Str
MalformedResponses ==
  { [err |-> FALSE, data |-> <<[result |-> r]>>] :
      r \in { <<>>, <<StrCell(<<"x">>)>>, <<OtherCell>> } }

\* what SELECT uid FROM session_db WHERE session_id = ... LIMIT 1 selects
SelectRows(rows, sessionID) ==
  IF rows[sessionID] = NoRow
    THEN {[err |-> FALSE, data |-> <<>>]}
    ELSE {[err |-> FALSE, data |-> <<[result |-> r]>>] :
            r \in RowResults(rows[sessionID])}

\* gateway.ExecSQL of that query: an error, a malformed response, or the rows
SelectResponses(rows, sessionID) ==
  {SqlError} \cup MalformedResponses \cup SelectRows(rows, sessionID)

\* ------------------------------------------------------- SessionResolver
cacheInvalidSessionMutant(its, rds, sessionID, t, cfg, redisSetOk, victim) ==
  LET req == [key |-> RedisKey(sessionID), value |-> SentinelString,
              ttl |-> RedisTTL]
  IN [items |-> its,
      redis |-> ExecRedisSet(rds, req, t, redisSetOk),
      redisSet |-> req]

cacheInvalidSession(its, rds, sessionID, t, cfg, redisSetOk, victim) ==
  LET req == [key |-> RedisKey(sessionID), value |-> SentinelString,
              ttl |-> RedisTTL]
  IN [items |-> CacheSet(its, sessionID, Sentinel, t, cfg, victim),
      redis |-> ExecRedisSet(rds, req, t, redisSetOk),
      redisSet |-> req]

Unresolved == [ok |-> FALSE, uid |-> 0]

UidOfRowMutant(sqlResp) ==
  IF sqlResp.err \/ Len(sqlResp.data) = 0 THEN Unresolved
  ELSE IF Len(sqlResp.data[1].result) = 0 THEN Unresolved
  ELSE LET v == sqlResp.data[1].result[1]
           uid == CASE v.type = "Int32" -> [ok |-> TRUE, val |-> v.int32]
                    [] v.type = "Int64" -> [ok |-> TRUE, val |-> v.lo]
                    [] v.type = "Str" -> [ok |-> TRUE, val |-> 1]
                    [] OTHER -> ParseFailed
       IN IF ~uid.ok THEN Unresolved ELSE [ok |-> TRUE, uid |-> uid.val]

UidOfRowNarrowMutant(sqlResp) ==
  IF sqlResp.err \/ Len(sqlResp.data) = 0 THEN Unresolved
  ELSE IF Len(sqlResp.data[1].result) = 0 THEN Unresolved
  ELSE LET v == sqlResp.data[1].result[1]
           uid == CASE v.type = "Int32" -> [ok |-> TRUE, val |-> v.int32]
                    [] v.type = "Int64" -> [ok |-> TRUE, val |-> v.hi]
                    [] v.type = "Str" -> ParseInt(v.str)
                    [] OTHER -> ParseFailed
       IN IF ~uid.ok \/ uid.val <= 0 THEN Unresolved
          ELSE [ok |-> TRUE, uid |-> uid.val]

UidOfRowAnySignMutant(sqlResp) ==
  IF sqlResp.err \/ Len(sqlResp.data) = 0 THEN Unresolved
  ELSE IF Len(sqlResp.data[1].result) = 0 THEN Unresolved
  ELSE LET v == sqlResp.data[1].result[1]
           uid == CASE v.type = "Int32" -> [ok |-> TRUE, val |-> v.int32]
                    [] v.type = "Int64" -> [ok |-> TRUE, val |-> v.lo]
                    [] v.type = "Str" -> ParseInt(v.str)
                    [] OTHER -> ParseFailed
       IN IF ~uid.ok THEN Unresolved ELSE [ok |-> TRUE, uid |-> uid.val]

UidOfRowLenMutant(sqlResp) ==
  IF sqlResp.err \/ Len(sqlResp.data) = 0 THEN Unresolved
  ELSE IF Len(sqlResp.data[1].result) = 0 THEN Unresolved
  ELSE LET v == sqlResp.data[1].result[1]
           uid == CASE v.type = "Int32" -> [ok |-> TRUE, val |-> v.int32]
                    [] v.type = "Int64" -> [ok |-> TRUE, val |-> v.lo]
                    [] v.type = "Str" -> [ok |-> ParseInt(v.str).ok,
                                          val |-> Len(v.str)]
                    [] OTHER -> ParseFailed
       IN IF ~uid.ok \/ uid.val <= 0 THEN Unresolved
          ELSE [ok |-> TRUE, uid |-> uid.val]

\* GetUserIDBySession, step 3: the uid of the first row, narrowed to int32
UidOfRow(sqlResp) ==
  IF sqlResp.err \/ Len(sqlResp.data) = 0 THEN Unresolved
  ELSE IF Len(sqlResp.data[1].result) = 0 THEN Unresolved
  ELSE LET v == sqlResp.data[1].result[1]
           uid == CASE v.type = "Int32" -> [ok |-> TRUE, val |-> v.int32]
                    [] v.type = "Int64" -> [ok |-> TRUE, val |-> v.lo]
                    [] v.type = "Str" -> ParseInt(v.str)
                    [] OTHER -> ParseFailed
       IN IF ~uid.ok \/ uid.val <= 0 THEN Unresolved
          ELSE [ok |-> TRUE, uid |-> uid.val]

\* the tier that answers GetUserIDBySession: LocalCache, Redis or MySQL
Path(its, rds, sessionID, t, redisGetOk) ==
  LET redisResp == ExecRedisGet(rds, RedisKey(sessionID), t, redisGetOk)
  IN IF CacheGet(its, sessionID, t).found THEN "local"
     ELSE IF ~redisResp.err /\ redisResp.value # <<>>
             /\ ParseInt(redisResp.value).ok THEN "redis"
     ELSE "sql"

GetUserIDBySession(its, rds, sessionID, t, cfg, redisGetOk, sqlResp, redisSetOk, victim) ==
  LET hit == CacheGet(its, sessionID, t)
      redisResp == ExecRedisGet(rds, RedisKey(sessionID), t, redisGetOk)
      parsed == ParseInt(redisResp.value)
      row == UidOfRow(sqlResp)
      path == Path(its, rds, sessionID, t, redisGetOk)
  IN IF path = "local" THEN
       [uid |-> IF hit.value = Sentinel THEN 0 ELSE hit.value,
        err |-> hit.value = Sentinel,
        items |-> its, redis |-> rds, path |-> path,
        redisSet |-> NoRedisSet]
     ELSE IF path = "redis" THEN
       [uid |-> IF parsed.val = Sentinel THEN 0 ELSE parsed.val,
        err |-> parsed.val = Sentinel,
        items |-> CacheSet(its, sessionID, parsed.val, t, cfg, victim),
        redis |-> rds, path |-> path,
        redisSet |-> NoRedisSet]
     ELSE IF ~row.ok THEN
       LET inv == cacheInvalidSession(its, rds, sessionID, t, cfg,
                                      redisSetOk, victim)
       IN [uid |-> 0, err |-> TRUE,
           items |-> inv.items, redis |-> inv.redis, path |-> path,
           redisSet |-> inv.redisSet]
     ELSE
       LET req == [key |-> RedisKey(sessionID), value |-> FormatInt(row.uid),
                   ttl |-> RedisTTL]
       IN [uid |-> row.uid, err |-> FALSE,
           items |-> CacheSet(its, sessionID, row.uid, t, cfg, victim),
           redis |-> ExecRedisSet(rds, req, t, redisSetOk), path |-> path,
           redisSet |-> req]

\* the outcomes of the collaborators' calls that a Get can observe
RedisGetOutcomes(its, sessionID, t) ==
  IF CacheGet(its, sessionID, t).found THEN {TRUE} ELSE BOOLEAN
SqlOutcomes(its, rds, rows, sessionID, t, redisGetOk) ==
  IF Path(its, rds, sessionID, t, redisGetOk) = "sql"
    THEN SelectResponses(rows, sessionID) ELSE {SqlError}
RedisSetOutcomes(its, rds, sessionID, t, redisGetOk) ==
  IF Path(its, rds, sessionID, t, redisGetOk) = "sql" THEN BOOLEAN ELSE {TRUE}
GetVictims(its, rds, sessionID, t, cfg, redisGetOk) ==
  IF Path(its, rds, sessionID, t, redisGetOk) = "local"
    THEN {NoVictim} ELSE Victims(its, sessionID, cfg)

\* SaveSession: INSERT INTO session_db; session_id is unique in the store
SaveSession(rows, sessionID, uid, t, sqlOk) ==
  IF sqlOk /\ rows[sessionID] = NoRow
    THEN [err |-> FALSE, db |-> [rows EXCEPT ![sessionID] = SessionRow(uid, t)]]
    ELSE [err |-> TRUE, db |-> rows]

\* -------------------------------------------------------- gRPC handlers
\* how the Record Store answered a call: not asked, with an error or a
\* malformed response, or with the rows
SqlKind(path, sqlResp) ==
  IF path # "sql" THEN "none"
  ELSE IF sqlResp \in {SqlError} \cup MalformedResponses THEN "fault"
  ELSE "rows"

\* server.Get
Get(sessionID) ==
  \E redisGetOk \in RedisGetOutcomes(items, sessionID, now) :
  \E sqlResp \in SqlOutcomes(items, redis, db, sessionID, now, redisGetOk),
     redisSetOk \in RedisSetOutcomes(items, redis, sessionID, now, redisGetOk),
     victim \in GetVictims(items, redis, sessionID, now, config, redisGetOk) :
    \E r \in {GetUserIDBySession(items, redis, sessionID, now, config,
                                 redisGetOk, sqlResp, redisSetOk, victim)} :
       /\ items' = r.items
       /\ redis' = r.redis
       /\ op' = [name |-> "Get", key |-> sessionID,
                 status |-> IF r.err THEN 1 ELSE 0,
                 uid |-> IF r.err THEN 0 ELSE r.uid,
                 sql |-> SqlKind(r.path, sqlResp),
                 redisSet |-> r.redisSet]
       /\ UNCHANGED <<now, config, janitorPc, janitorNow, keysToDelete,
                      inserted, db, pendingDel, created, recentDel>>
       /\ UNCHANGED procVars

\* server.Set: generateSessionID, then SaveSession
Set(uid) ==
  \/ /\ op' = [name |-> "Set", status |-> 1]
     /\ UNCHANGED <<now, config, cacheVars, storeVars>>
     /\ UNCHANGED procVars
  \/ \E sessionID \in Tokens, sqlOk \in BOOLEAN :
       \E r \in {SaveSession(db, sessionID, uid, now, sqlOk)} :
          /\ db' = r.db
          /\ created' = IF r.err THEN created ELSE created \cup {<<sessionID, uid>>}
          /\ recentDel' = IF r.err THEN recentDel ELSE recentDel \ {sessionID}
          /\ op' = [name |-> "Set", status |-> IF r.err THEN 2 ELSE 0]
          /\ UNCHANGED <<now, config, cacheVars, redis, pendingDel>>
          /\ UNCHANGED procVars

\* DeleteSession.  The store may apply the DELETE it has accepted later.
DeleteSession(its, rds, rows, sessionID, t, cfg, sqlOk, applied, redisSetOk, victim) ==
  IF ~sqlOk
    THEN [err |-> TRUE, items |-> its, redis |-> rds, db |-> rows,
          late |-> FALSE]
    ELSE LET inv == cacheInvalidSession(its, rds, sessionID, t, cfg,
                                        redisSetOk, victim)
         IN [err |-> FALSE, items |-> inv.items, redis |-> inv.redis,
             db |-> IF applied THEN [rows EXCEPT ![sessionID] = NoRow] ELSE rows,
             late |-> ~applied /\ rows[sessionID] # NoRow]

\* server.Del
Del(sessionID) ==
  \E sqlOk \in BOOLEAN :
  \E applied \in (IF sqlOk /\ db[sessionID] # NoRow THEN BOOLEAN ELSE {TRUE}),
     redisSetOk \in (IF sqlOk THEN BOOLEAN ELSE {TRUE}),
     victim \in (IF sqlOk THEN Victims(items, sessionID, config) ELSE {NoVictim}) :
    \E r \in {DeleteSession(items, redis, db, sessionID, now, config,
                            sqlOk, applied, redisSetOk, victim)} :
       /\ items' = r.items
       /\ redis' = r.redis
       /\ db' = r.db
       /\ pendingDel' = IF r.err THEN pendingDel
                        ELSE IF r.late THEN pendingDel \cup {sessionID}
                        ELSE pendingDel \ {sessionID}
       /\ recentDel' = IF r.err THEN recentDel ELSE recentDel \cup {sessionID}
       /\ op' = [name |-> "Del", key |-> sessionID,
                 status |-> IF r.err THEN 1 ELSE 0,
                 sql |-> IF sqlOk THEN "rows" ELSE "fault"]
       /\ UNCHANGED <<now, config, janitorPc, janitorNow, keysToDelete,
                      inserted, created>>
       /\ UNCHANGED procVars

\* the store applies a DELETE it had accepted
ApplyDelete(sessionID) ==
  /\ sessionID \in pendingDel
  /\ db' = [db EXCEPT ![sessionID] = NoRow]
  /\ pendingDel' = pendingDel \ {sessionID}
  /\ op' = NoOp
  /\ UNCHANGED <<now, config, cacheVars, redis, created, recentDel>>
  /\ UNCHANGED procVars

\* DELETE FROM session_db WHERE created_at < now - expireHours hours
DeleteExpired(rows, t, expireHours, sqlOk) ==
  IF ~sqlOk THEN rows
  ELSE [k \in DOMAIN rows |->
          IF rows[k] # NoRow
             /\ rows[k].createdAt < t - expireHours * SecondsPerHour
            THEN NoRow ELSE rows[k]]

\* SessionCleaner.cleanExpiredSessions of the cleaner started by main, whose
\* expireHours is the configured one as long as no reload changes it
cleanExpiredSessions(sqlOk) ==
  /\ db' = DeleteExpired(db, now, config.ExpireHours, sqlOk)
  /\ pendingDel' = {k \in pendingDel : db'[k] # NoRow}
  /\ op' = NoOp
  /\ UNCHANGED <<now, config, cacheVars, redis, created, recentDel>>
  /\ UNCHANGED procVars

\* time passes; the Distributed Cache drops the keys whose TTL has run out
LongTick ==
  /\ now < MaxLongTicks * LongStep
  /\ now' = now + LongStep
  /\ redis' = [k \in {x \in DOMAIN redis : now' < redis[x].expireAt} |-> redis[k]]
  /\ recentDel' = {}
  /\ op' = NoOp
  /\ UNCHANGED <<config, cacheVars, db, pendingDel, created>>
  /\ UNCHANGED procVars

Init ==
  /\ now = 0
  /\ config \in [MemTimeout : {TimeStep}, MemMaxsize : 1..Cardinality(Tokens),
                 ExpireHours : ExpireHoursValues, CleanInterval : {1}]
  /\ items = <<>>
  /\ janitorPc = "idle"
  /\ janitorNow = 0
  /\ keysToDelete = {}
  /\ inserted = [k \in Tokens |-> NoInsert]
  /\ redis = <<>>
  /\ db = [k \in Tokens |-> NoRow]
  /\ pendingDel = {}
  /\ created = {}
  /\ recentDel = {}
  /\ op = NoOp
  /\ NoProcs

Next ==
  \/ \E sessionID \in Tokens : Get(sessionID)
  \/ \E uid \in UidInputs : Set(uid)
  \/ \E sessionID \in Tokens : Del(sessionID)
  \/ \E sessionID \in Tokens : ApplyDelete(sessionID)
  \/ \E sqlOk \in BOOLEAN : cleanExpiredSessions(sqlOk)
  \/ LongTick

Spec == Init /\ [][Next]_vars

\* ---------------------------------------- concurrent calls of server.Get
NumCallers == 2
Callers == 1..NumCallers

NewCall(sessionID) ==
  [key |-> sessionID, pc |-> "local", val |-> 0, sql |-> "none",
   status |-> 0, uid |-> 0]

\* the call returns: Code 1 for an error, else Code 0 and the uid
Return(call, value) ==
  [call EXCEPT !.pc = "done",
               !.status = IF value = Sentinel THEN 1 ELSE 0,
               !.uid = IF value = Sentinel THEN 0 ELSE value]

UnlockMutant(holder) == holder

\* defer mainlock.Unlock() of gateway.ExecSQL
Unlock(holder) == 0

\* step 1: sessionCache.Get
GetLocal(c) ==
  /\ calls[c].pc = "local"
  /\ LET hit == CacheGet(items, calls[c].key, now)
     IN calls' = [calls EXCEPT ![c] =
                    IF hit.found THEN Return(@, hit.value)
                                 ELSE [@ EXCEPT !.pc = "redisGet"]]
  /\ op' = NoOp
  /\ UNCHANGED <<now, config, cacheVars, storeVars, mainlock, cleaners,
                 sessionCleaner, reload>>

\* step 2: gateway.ExecRedisGet and strconv.ParseInt of its value
GetRedis(c) ==
  /\ calls[c].pc = "redisGet"
  /\ \E redisGetOk \in BOOLEAN :
       LET redisResp == ExecRedisGet(redis, RedisKey(calls[c].key), now, redisGetOk)
           parsed == ParseInt(redisResp.value)
       IN calls' = [calls EXCEPT ![c] =
                      IF ~redisResp.err /\ redisResp.value # <<>> /\ parsed.ok
                        THEN [@ EXCEPT !.pc = "backfill", !.val = parsed.val]
                        ELSE [@ EXCEPT !.pc = "sqlLock"]]
  /\ op' = NoOp
  /\ UNCHANGED <<now, config, cacheVars, storeVars, mainlock, cleaners,
                 sessionCleaner, reload>>

\* step 2, a value found in Redis: sessionCache.Set and return
Backfill(c) ==
  /\ calls[c].pc = "backfill"
  /\ \E victim \in Victims(items, calls[c].key, config) :
       items' = CacheSet(items, calls[c].key, calls[c].val, now, config, victim)
  /\ calls' = [calls EXCEPT ![c] = Return(@, calls[c].val)]
  /\ op' = NoOp
  /\ UNCHANGED <<now, config, janitorPc, janitorNow, keysToDelete, inserted,
                 storeVars, mainlock, cleaners, sessionCleaner, reload>>

\* gateway.ExecSQL: mainlock.Lock()
SqlLock(c) ==
  /\ calls[c].pc = "sqlLock"
  /\ mainlock = 0
  /\ mainlock' = c
  /\ calls' = [calls EXCEPT ![c].pc = "sqlCall"]
  /\ op' = NoOp
  /\ UNCHANGED <<now, config, cacheVars, storeVars, cleaners, sessionCleaner,
                 reload>>

\* gateway.ExecSQL: the query and the deferred unlock; then the uid of the row
SqlCall(c) ==
  /\ calls[c].pc = "sqlCall"
  /\ mainlock = c
  /\ mainlock' = Unlock(mainlock)
  /\ \E sqlResp \in SelectResponses(db, calls[c].key) :
       LET row == UidOfRow(sqlResp)
       IN calls' = [calls EXCEPT ![c] =
                      [@ EXCEPT !.pc = IF row.ok THEN "okRedis" ELSE "invLocal",
                                !.val = IF row.ok THEN row.uid ELSE Sentinel,
                                !.sql = SqlKind("sql", sqlResp)]]
  /\ op' = NoOp
  /\ UNCHANGED <<now, config, cacheVars, storeVars, cleaners, sessionCleaner,
                 reload>>

\* cacheInvalidSession: sessionCache.Set(sessionID, -1)
InvLocal(c) ==
  /\ calls[c].pc = "invLocal"
  /\ \E victim \in Victims(items, calls[c].key, config) :
       items' = CacheSet(items, calls[c].key, Sentinel, now, config, victim)
  /\ calls' = [calls EXCEPT ![c].pc = "invRedis"]
  /\ op' = NoOp
  /\ UNCHANGED <<now, config, janitorPc, janitorNow, keysToDelete, inserted,
                 storeVars, mainlock, cleaners, sessionCleaner, reload>>

\* cacheInvalidSession: gateway.ExecRedisSet of "-1", then the error return
InvRedis(c) ==
  /\ calls[c].pc = "invRedis"
  /\ \E redisSetOk \in BOOLEAN :
       redis' = ExecRedisSet(redis, [key |-> RedisKey(calls[c].key),
                                     value |-> SentinelString, ttl |-> RedisTTL],
                             now, redisSetOk)
  /\ calls' = [calls EXCEPT ![c] = Return(@, Sentinel)]
  /\ op' = NoOp
  /\ UNCHANGED <<now, config, cacheVars, db, pendingDel, created, recentDel,
                 mainlock, cleaners, sessionCleaner, reload>>

\* step 3, a positive uid: gateway.ExecRedisSet of the uid
OkRedis(c) ==
  /\ calls[c].pc = "okRedis"
  /\ \E redisSetOk \in BOOLEAN :
       redis' = ExecRedisSet(redis, [key |-> RedisKey(calls[c].key),
                                     value |-> FormatInt(calls[c].val),
                                     ttl |-> RedisTTL],
                             now, redisSetOk)
  /\ calls' = [calls EXCEPT ![c].pc = "okLocal"]
  /\ op' = NoOp
  /\ UNCHANGED <<now, config, cacheVars, db, pendingDel, created, recentDel,
                 mainlock, cleaners, sessionCleaner, reload>>

\* step 3, a positive uid: sessionCache.Set of the uid and return
OkLocal(c) ==
  /\ calls[c].pc = "okLocal"
  /\ \E victim \in Victims(items, calls[c].key, config) :
       items' = CacheSet(items, calls[c].key, calls[c].val, now, config, victim)
  /\ calls' = [calls EXCEPT ![c] = Return(@, calls[c].val)]
  /\ op' = NoOp
  /\ UNCHANGED <<now, config, janitorPc, janitorNow, keysToDelete, inserted,
                 storeVars, mainlock, cleaners, sessionCleaner, reload>>

\* the next step of the goroutine serving call c
CallStep(c) ==
  \/ GetLocal(c)
  \/ GetRedis(c)
  \/ Backfill(c)
  \/ SqlLock(c)
  \/ SqlCall(c)
  \/ InvLocal(c)
  \/ InvRedis(c)
  \/ OkRedis(c)
  \/ OkLocal(c)

\* every caller asks for the same session id, which no tier caches; the
\* Record Store holds a row for it or none
InitConc ==
  /\ now = 0
  /\ config \in [MemTimeout : {TimeStep}, MemMaxsize : 1..Cardinality(Tokens),
                 ExpireHours : ExpireHoursValues, CleanInterval : {1}]
  /\ items = <<>>
  /\ janitorPc = "idle"
  /\ janitorNow = 0
  /\ keysToDelete = {}
  /\ inserted = [k \in Tokens |-> NoInsert]
  /\ redis = <<>>
  /\ \E sessionID \in Tokens :
       /\ calls = [c \in Callers |-> NewCall(sessionID)]
       /\ \E row \in {NoRow} \cup {SessionRow(uid, now) : uid \in UidInputs} :
            db = [k \in Tokens |-> IF k = sessionID THEN row ELSE NoRow]
  /\ pendingDel = {}
  /\ created = {<<k, db[k].uid>> : k \in {x \in Tokens : db[x] # NoRow}}
  /\ recentDel = {}
  /\ op = NoOp
  /\ mainlock = 0
  /\ cleaners = <<>>
  /\ sessionCleaner = 0
  /\ reload = NoReload

NextConc ==
  \/ \E c \in Callers : GetLocal(c)
  \/ \E c \in Callers : GetRedis(c)
  \/ \E c \in Callers : Backfill(c)
  \/ \E c \in Callers : SqlLock(c)
  \/ \E c \in Callers : SqlCall(c)
  \/ \E c \in Callers : InvLocal(c)
  \/ \E c \in Callers : InvRedis(c)
  \/ \E c \in Callers : OkRedis(c)
  \/ \E c \in Callers : OkLocal(c)

\* the Go scheduler runs every goroutine that can take a step
SpecConc ==
  InitConc /\ [][NextConc]_vars /\ \A c \in Callers : WF_vars(CallStep(c))

\* ----------------------------- server.Del running along calls of server.Get
\* the caller number of the goroutine serving Del
Deleter == 0

\* what mainlock holds while the goroutine serving Del has it
DeleterHolder == NumCallers + 1

NewDel(sessionID) ==
  [key |-> sessionID, pc |-> "delLock", status |-> 0, redisSetOk |-> FALSE]

\* DeleteSession, gateway.ExecSQL: mainlock.Lock()
DelLock ==
  /\ calls[Deleter].pc = "delLock"
  /\ mainlock = 0
  /\ mainlock' = DeleterHolder
  /\ calls' = [calls EXCEPT ![Deleter].pc = "delCall"]
  /\ op' = NoOp
  /\ UNCHANGED <<now, config, cacheVars, storeVars, cleaners, sessionCleaner,
                 reload>>

\* DeleteSession, gateway.ExecSQL: the DELETE and the deferred unlock; an
\* error makes Del return Code 1
DelCall ==
  /\ calls[Deleter].pc = "delCall"
  /\ mainlock = DeleterHolder
  /\ mainlock' = Unlock(mainlock)
  /\ \E sqlOk \in BOOLEAN :
     \E applied \in (IF sqlOk /\ db[calls[Deleter].key] # NoRow
                       THEN BOOLEAN ELSE {TRUE}) :
       /\ db' = IF sqlOk /\ applied
                  THEN [db EXCEPT ![calls[Deleter].key] = NoRow] ELSE db
       /\ pendingDel' = IF sqlOk /\ ~applied
                          THEN pendingDel \cup {calls[Deleter].key}
                          ELSE pendingDel
       /\ calls' = [calls EXCEPT ![Deleter] =
                      IF sqlOk THEN [@ EXCEPT !.pc = "delLocal"]
                               ELSE [@ EXCEPT !.pc = "done", !.status = 1]]
  /\ op' = NoOp
  /\ UNCHANGED <<now, config, cacheVars, redis, created, recentDel, cleaners,
                 sessionCleaner, reload>>

\* DeleteSession, cacheInvalidSession: sessionCache.Set(sessionID, -1)
DelLocal ==
  /\ calls[Deleter].pc = "delLocal"
  /\ \E victim \in Victims(items, calls[Deleter].key, config) :
       items' = CacheSet(items, calls[Deleter].key, Sentinel, now, config, victim)
  /\ calls' = [calls EXCEPT ![Deleter].pc = "delRedis"]
  /\ op' = NoOp
  /\ UNCHANGED <<now, config, janitorPc, janitorNow, keysToDelete, inserted,
                 storeVars, mainlock, cleaners, sessionCleaner, reload>>

\* DeleteSession, cacheInvalidSession: gateway.ExecRedisSet of "-1"; then
\* Del returns Code 0
DelRedis ==
  /\ calls[Deleter].pc = "delRedis"
  /\ \E redisSetOk \in BOOLEAN :
       /\ redis' = ExecRedisSet(redis, [key |-> RedisKey(calls[Deleter].key),
                                        value |-> SentinelString,
                                        ttl |-> RedisTTL],
                                now, redisSetOk)
       /\ calls' = [calls EXCEPT ![Deleter] =
                      [@ EXCEPT !.pc = "done", !.redisSetOk = redisSetOk]]
  /\ op' = NoOp
  /\ UNCHANGED <<now, config, cacheVars, db, pendingDel, created, recentDel,
                 mainlock, cleaners, sessionCleaner, reload>>

\* the store applies the DELETE it had accepted
ApplyDeleteRace(sessionID) ==
  /\ sessionID \in pendingDel
  /\ db' = [db EXCEPT ![sessionID] = NoRow]
  /\ pendingDel' = pendingDel \ {sessionID}
  /\ op' = NoOp
  /\ UNCHANGED <<now, config, cacheVars, redis, created, recentDel, procVars>>

\* what a tier holds after earlier Get calls of a session: nothing or its uid
WarmItems(sessionID, uid, t, cfg) ==
  {<<>>, [k \in {sessionID} |-> [value |-> uid, expiration |-> Expiration(t, cfg)]]}
WarmRedis(sessionID, uid, t) ==
  {<<>>, [k \in {RedisKey(sessionID)} |->
            [value |-> FormatInt(uid), expireAt |-> t + RedisTTL]]}

\* a session with a positive uid exists; a Del of it and Get calls of it start
InitRace ==
  /\ now = 0
  /\ config \in [MemTimeout : {TimeStep}, MemMaxsize : 1..Cardinality(Tokens),
                 ExpireHours : ExpireHoursValues, CleanInterval : {1}]
  /\ janitorPc = "idle"
  /\ janitorNow = 0
  /\ keysToDelete = {}
  /\ inserted = [k \in Tokens |-> NoInsert]
  /\ \E sessionID \in Tokens, uid \in {u \in UidInputs : u > 0} :
       /\ calls = [c \in Callers \cup {Deleter} |->
                     IF c = Deleter THEN NewDel(sessionID) ELSE NewCall(sessionID)]
       /\ db = [k \in Tokens |->
                  IF k = sessionID THEN SessionRow(uid, now) ELSE NoRow]
       /\ created = {<<sessionID, uid>>}
       /\ items \in WarmItems(sessionID, uid, now, config)
       /\ redis \in WarmRedis(sessionID, uid, now)
  /\ pendingDel = {}
  /\ recentDel = {}
  /\ op = NoOp
  /\ mainlock = 0
  /\ cleaners = <<>>
  /\ sessionCleaner = 0
  /\ reload = NoReload

NextRace ==
  \/ \E c \in Callers : GetLocal(c)
  \/ \E c \in Callers : GetRedis(c)
  \/ \E c \in Callers : Backfill(c)
  \/ \E c \in Callers : SqlLock(c)
  \/ \E c \in Callers : SqlCall(c)
  \/ \E c \in Callers : InvLocal(c)
  \/ \E c \in Callers : InvRedis(c)
  \/ \E c \in Callers : OkRedis(c)
  \/ \E c \in Callers : OkLocal(c)
  \/ DelLock
  \/ DelCall
  \/ DelLocal
  \/ DelRedis
  \/ \E sessionID \in Tokens : ApplyDeleteRace(sessionID)

SpecRace == InitRace /\ [][NextRace]_vars

\* ------------------------------------ SessionCleaner, main and the reload
MaxReloads == 2
\* values of session.expire_hours and of session.clean_interval
ParamValues == {1, 2}
Configs ==
  [MemTimeout : MemTimeouts, MemMaxsize : MemMaxsizes,
   ExpireHours : ParamValues, CleanInterval : ParamValues]

\* NewSessionCleaner: the parameters are copied from the configuration.
\* loops holds the position of every goroutine the instance has launched.
NewSessionCleaner(cfg) ==
  [running |-> FALSE, expireHours |-> cfg.ExpireHours,
   cleanInterval |-> cfg.CleanInterval, loops |-> <<>>]

StoppedMutant(sc, j) == [sc EXCEPT !.running = FALSE]

StartMutant(sc) ==
  [sc EXCEPT !.running = TRUE, !.loops = Append(@, "sleeping")]

\* SessionCleaner.Start: the goroutine sleeps 10 s, then runs cleanerLoop
Start(sc) ==
  IF sc.running THEN sc
  ELSE [sc EXCEPT !.running = TRUE, !.loops = Append(@, "sleeping")]

\* the loops of a cleaner that wait in the select of cleanerLoop
Selecting(sc) == {j \in DOMAIN sc.loops : sc.loops[j] = "select"}

\* SessionCleaner.Stop past its send: loop j has received from stopChan and
\* returned, and Stop has cleared running
Stopped(sc, j) == [sc EXCEPT !.running = FALSE, !.loops[j] = "stopped"]

\* gateway.mainlock held by a sweep of cleaner i
SweeperHolder(i) == -i

\* ReloadSessionService up to the send on stopChan: config.ReloadConf, the
\* comparison, and, when Stop does not block, the new cleaner
ReloadSessionService ==
  /\ reload.pc = "idle"
  /\ reload.count < MaxReloads
  /\ \E cfg \in Configs :
       LET configChanged == \/ config.ExpireHours # cfg.ExpireHours
                            \/ config.CleanInterval # cfg.CleanInterval
           blocks == /\ sessionCleaner # 0
                     /\ cleaners[sessionCleaner].running
       IN /\ config' = cfg
          /\ IF ~configChanged
               THEN /\ reload' = [pc |-> "idle", changed |-> FALSE,
                                  count |-> reload.count + 1, at |-> <<>>]
                    /\ UNCHANGED <<cleaners, sessionCleaner>>
             ELSE IF blocks
               THEN /\ reload' = [reload EXCEPT
                                    !.pc = "stopping",
                                    !.at = cleaners[sessionCleaner].loops]
                    /\ UNCHANGED <<cleaners, sessionCleaner>>
             ELSE /\ cleaners' = Append(cleaners, Start(NewSessionCleaner(cfg)))
                  /\ sessionCleaner' = Len(cleaners) + 1
                  /\ reload' = [pc |-> "idle", changed |-> TRUE,
                                count |-> reload.count + 1, at |-> <<>>]
  /\ op' = NoOp
  /\ UNCHANGED <<now, cacheVars, storeVars, calls, mainlock>>

\* SessionCleaner.Stop past its send: cleanerLoop has received from stopChan
\* and returned; then the rest of ReloadSessionService
StopDelivered ==
  /\ reload.pc = "stopping"
  /\ \E j \in Selecting(cleaners[sessionCleaner]) :
       cleaners' = Append([cleaners EXCEPT ![sessionCleaner] = Stopped(@, j)],
                          Start(NewSessionCleaner(config)))
  /\ sessionCleaner' = Len(cleaners) + 1
  /\ reload' = [pc |-> "idle", changed |-> TRUE, count |-> reload.count + 1,
                at |-> <<>>]
  /\ op' = [name |-> "Stop", cleaner |-> sessionCleaner, at |-> reload.at]
  /\ UNCHANGED <<now, config, cacheVars, storeVars, calls, mainlock>>

\* cleanExpiredSessions of cleaner i, with the expireHours it was made with:
\* the bulk DELETE is answered; an error is logged and nothing else
CleanerSweep(i, sqlOk) ==
  /\ db' = DeleteExpired(db, now, cleaners[i].expireHours, sqlOk)
  /\ pendingDel' = {k \in pendingDel : db'[k] # NoRow}
  /\ op' = [name |-> "Sweep", cleaner |-> i,
            expireHours |-> cleaners[i].expireHours, ok |-> sqlOk]

\* cleanerLoop after the 10 s delay: the first cleanExpiredSessions begins
CleanerWake(i, j) ==
  /\ cleaners[i].loops[j] = "sleeping"
  /\ cleaners' = [cleaners EXCEPT ![i].loops[j] = "lock"]
  /\ op' = NoOp
  /\ UNCHANGED <<now, config, cacheVars, storeVars, calls, mainlock,
                 sessionCleaner, reload>>

\* cleanerLoop, case <-ticker.C: cleanExpiredSessions begins
CleanerTick(i, j) ==
  /\ cleaners[i].loops[j] = "select"
  /\ cleaners' = [cleaners EXCEPT ![i].loops[j] = "lock"]
  /\ op' = NoOp
  /\ UNCHANGED <<now, config, cacheVars, storeVars, calls, mainlock,
                 sessionCleaner, reload>>

\* cleanExpiredSessions, gateway.ExecSQL: mainlock.Lock()
SweepLock(i, j) ==
  /\ cleaners[i].loops[j] = "lock"
  /\ mainlock = 0
  /\ mainlock' = SweeperHolder(i)
  /\ cleaners' = [cleaners EXCEPT ![i].loops[j] = "call"]
  /\ op' = NoOp
  /\ UNCHANGED <<now, config, cacheVars, storeVars, calls, sessionCleaner,
                 reload>>

AfterSweepStopMutant(sqlOk) == IF sqlOk THEN "select" ELSE "stopped"

AfterSweepRetryMutant(sqlOk) == IF sqlOk THEN "select" ELSE "lock"

\* where cleanerLoop goes when cleanExpiredSessions returns: an error is
\* logged and the function returns like a success, into the for/select
AfterSweep(sqlOk) == "select"

\* cleanExpiredSessions, gateway.ExecSQL: the request is answered and the
\* deferred unlock runs; the loop goes (back) to its select
SweepCall(i, j) ==
  /\ cleaners[i].loops[j] = "call"
  /\ mainlock = SweeperHolder(i)
  /\ mainlock' = Unlock(mainlock)
  /\ \E sqlOk \in BOOLEAN :
       /\ CleanerSweep(i, sqlOk)
       /\ cleaners' = [cleaners EXCEPT ![i].loops[j] = AfterSweep(sqlOk)]
  /\ UNCHANGED <<now, config, cacheVars, redis, created, recentDel, calls,
                 sessionCleaner, reload>>

\* main: unless STIMSESSION_DISABLE_CLEANER is set, a cleaner is made and
\* started, held by a variable local to main; grpc.sessionCleaner stays nil
InitSweeper ==
  /\ now = 0
  /\ config \in Configs
  /\ items = <<>>
  /\ janitorPc = "idle"
  /\ janitorNow = 0
  /\ keysToDelete = {}
  /\ inserted = [k \in Tokens |-> NoInsert]
  /\ redis = <<>>
  /\ db = [k \in Tokens |-> NoRow]
  /\ pendingDel = {}
  /\ created = {}
  /\ recentDel = {}
  /\ op = NoOp
  /\ calls = <<>>
  /\ mainlock = 0
  /\ \E disableCleaner \in BOOLEAN :
       cleaners = IF disableCleaner THEN <<>>
                  ELSE <<Start(NewSessionCleaner(config))>>
  /\ sessionCleaner = 0
  /\ reload = NoReload

\* the cleaners and loops there can be
CleanerIds == 1..(MaxReloads + 1)
LoopIds(i) == IF i \in DOMAIN cleaners THEN DOMAIN cleaners[i].loops ELSE {}

NextSweeper ==
  \/ ReloadSessionService
  \/ StopDelivered
  \/ \E i \in CleanerIds : \E j \in LoopIds(i) : CleanerWake(i, j)
  \/ \E i \in CleanerIds : \E j \in LoopIds(i) : CleanerTick(i, j)
  \/ \E i \in CleanerIds : \E j \in LoopIds(i) : SweepLock(i, j)
  \/ \E i \in CleanerIds : \E j \in LoopIds(i) : SweepCall(i, j)

SpecSweeper == InitSweeper /\ [][NextSweeper]_vars

\* the loop that Start launches in a cleaner started once
FirstLoop == 1

\* a step that the loop of cleaner i takes by itself once it can: the end of
\* the startup delay, and the answer of the Record Store to its request
LoopStep(i) ==
  /\ i \in DOMAIN cleaners
  /\ FirstLoop \in DOMAIN cleaners[i].loops
  /\ (CleanerWake(i, FirstLoop) \/ SweepCall(i, FirstLoop))

\* the loop of cleaner i gets mainlock
LockStep(i) ==
  /\ i \in DOMAIN cleaners
  /\ FirstLoop \in DOMAIN cleaners[i].loops
  /\ SweepLock(i, FirstLoop)

\* the process under a fair scheduler, with a Record Store that answers
\* every request: a goroutine that can run does; sync.Mutex hands the lock to
\* a goroutine that keeps waiting for it; a select that is entered again and
\* again with a sender blocked on stopChan takes that case
SpecSweeperLive ==
  /\ InitSweeper
  /\ [][NextSweeper]_vars
  /\ \A i \in CleanerIds : WF_vars(LoopStep(i)) /\ SF_vars(LockStep(i))
  /\ SF_vars(StopDelivered)

\* --------------------------- a cleaner running along calls of server.Get
\* the callers of InitConc, and a cleaner just started
InitShare ==
  /\ now = 0
  /\ config \in [MemTimeout : {TimeStep}, MemMaxsize : 1..Cardinality(Tokens),
                 ExpireHours : ExpireHoursValues, CleanInterval : {1}]
  /\ items = <<>>
  /\ janitorPc = "idle"
  /\ janitorNow = 0
  /\ keysToDelete = {}
  /\ inserted = [k \in Tokens |-> NoInsert]
  /\ redis = <<>>
  /\ \E sessionID \in Tokens :
       /\ calls = [c \in Callers |-> NewCall(sessionID)]
       /\ \E row \in {NoRow} \cup {SessionRow(uid, now) : uid \in UidInputs} :
            db = [k \in Tokens |-> IF k = sessionID THEN row ELSE NoRow]
  /\ pendingDel = {}
  /\ created = {<<k, db[k].uid>> : k \in {x \in Tokens : db[x] # NoRow}}
  /\ recentDel = {}
  /\ op = NoOp
  /\ mainlock = 0
  /\ cleaners = <<Start(NewSessionCleaner(config))>>
  /\ sessionCleaner = 0
  /\ reload = NoReload

NextShare ==
  \/ \E c \in Callers : GetLocal(c)
  \/ \E c \in Callers : GetRedis(c)
  \/ \E c \in Callers : Backfill(c)
  \/ \E c \in Callers : SqlLock(c)
  \/ \E c \in Callers : SqlCall(c)
  \/ \E c \in Callers : InvLocal(c)
  \/ \E c \in Callers : InvRedis(c)
  \/ \E c \in Callers : OkRedis(c)
  \/ \E c \in Callers : OkLocal(c)
  \/ \E i \in CleanerIds : \E j \in LoopIds(i) : CleanerWake(i, j)
  \/ \E i \in CleanerIds : \E j \in LoopIds(i) : CleanerTick(i, j)
  \/ \E i \in CleanerIds : \E j \in LoopIds(i) : SweepLock(i, j)
  \/ \E i \in CleanerIds : \E j \in LoopIds(i) : SweepCall(i, j)

SpecShare == InitShare /\ [][NextShare]_vars

\* ------------------------------- one SessionCleaner under Start and Stop
MaxCalls == 4

\* a caller, one call at a time, calls sc.Start()
CallStart(i) ==
  /\ reload.pc = "idle"
  /\ reload.count < MaxCalls
  /\ cleaners' = [cleaners EXCEPT ![i] = Start(@)]
  /\ reload' = [reload EXCEPT !.count = @ + 1]
  /\ op' = [name |-> "Start", cleaner |-> i, wasRunning |-> cleaners[i].running]
  /\ UNCHANGED <<now, config, cacheVars, storeVars, calls, mainlock,
                 sessionCleaner>>

\* the caller calls sc.Stop(): it returns at once when sc is not running,
\* else it blocks in the send on stopChan
CallStop(i) ==
  /\ reload.pc = "idle"
  /\ reload.count < MaxCalls
  /\ IF ~cleaners[i].running
       THEN /\ reload' = [reload EXCEPT !.count = @ + 1]
            /\ op' = [name |-> "Stop", cleaner |-> i, at |-> <<>>]
            /\ UNCHANGED sessionCleaner
       ELSE /\ reload' = [reload EXCEPT !.pc = "stopping",
                                        !.at = cleaners[i].loops]
            /\ op' = NoOp
            /\ sessionCleaner' = i
  /\ UNCHANGED <<now, config, cacheVars, storeVars, calls, mainlock, cleaners>>

\* sc.Stop() past its send: a loop of sc has received and returned
StopReturns ==
  /\ reload.pc = "stopping"
  /\ \E j \in Selecting(cleaners[sessionCleaner]) :
       cleaners' = [cleaners EXCEPT ![sessionCleaner] = Stopped(@, j)]
  /\ reload' = [reload EXCEPT !.pc = "idle", !.count = @ + 1, !.at = <<>>]
  /\ op' = [name |-> "Stop", cleaner |-> sessionCleaner, at |-> reload.at]
  /\ UNCHANGED <<now, config, cacheVars, storeVars, calls, mainlock,
                 sessionCleaner>>

\* a cleaner just made by NewSessionCleaner
InitCleaner ==
  /\ now = 0
  /\ config \in Configs
  /\ items = <<>>
  /\ janitorPc = "idle"
  /\ janitorNow = 0
  /\ keysToDelete = {}
  /\ inserted = [k \in Tokens |-> NoInsert]
  /\ redis = <<>>
  /\ db = [k \in Tokens |-> NoRow]
  /\ pendingDel = {}
  /\ created = {}
  /\ recentDel = {}
  /\ op = NoOp
  /\ calls = <<>>
  /\ mainlock = 0
  /\ cleaners = <<NewSessionCleaner(config)>>
  /\ sessionCleaner = 0
  /\ reload = NoReload

NextCleaner ==
  \/ \E i \in CleanerIds : i \in DOMAIN cleaners /\ CallStart(i)
  \/ \E i \in CleanerIds : i \in DOMAIN cleaners /\ CallStop(i)
  \/ StopReturns
  \/ \E i \in CleanerIds : \E j \in LoopIds(i) : CleanerWake(i, j)
  \/ \E i \in CleanerIds : \E j \in LoopIds(i) : CleanerTick(i, j)
  \/ \E i \in CleanerIds : \E j \in LoopIds(i) : SweepLock(i, j)
  \/ \E i \in CleanerIds : \E j \in LoopIds(i) : SweepCall(i, j)

SpecCleaner == InitCleaner /\ [][NextCleaner]_vars

\* ------------------------------------------------- claims on the handlers
\* what a tier holds for a session id, as a reader sees it at time t
LocalHolds(its, sessionID, t, value) ==
  CacheGet(its, sessionID, t) = [value |-> value, found |-> TRUE]
RedisHolds(rds, sessionID, t, str) ==
  ExecRedisGet(rds, RedisKey(sessionID), t, TRUE) = [err |-> FALSE, value |-> str]

\* a row of the session id that no accepted DELETE is about to remove: Set
\* returned 0 with this id, and no Del and no sweep of the row came since
LiveSession(rows, pending, sessionID) ==
  rows[sessionID] # NoRow /\ sessionID \notin pending

\* C1 as stated: once Del(token) has returned 0, every Get(token) within the
\* sentinel's TTL window returns status 1, even when the row is still held
\* and whatever LocalCache insertions and evictions came in between.
C1_NotFoundAfterDel ==
  (op.name = "Get" /\ op.key \in recentDel) => op.status = 1

\* C2 as stated: a Get(t) following a Set(uid) that returned 0 with token t,
\* with no Del and no sweep of t's row in between, returns 0 with that uid,
\* whatever calls ran before the Set.
C2_GetAfterSet ==
  [][(op'.name = "Get" /\ LiveSession(db, pendingDel, op'.key)) =>
       (op'.status = 0 /\ op'.uid = db[op'.key].uid)]_vars

\* C2 amended: the Get returns 0 with the uid when the uid is positive, the
\* Record Store answers the Get's query (if it is asked) with the row, and
\* neither tier holds an unexpired entry for t with another value.
C2_GetAfterSetCleanTiers ==
  [][(/\ op'.name = "Get"
      /\ LiveSession(db, pendingDel, op'.key)
      /\ db[op'.key].uid > 0
      /\ op'.sql # "fault"
      /\ CacheGet(items, op'.key, now).found
           => LocalHolds(items, op'.key, now, db[op'.key].uid)
      /\ \/ RedisHolds(redis, op'.key, now, <<>>)
         \/ RedisHolds(redis, op'.key, now, FormatInt(db[op'.key].uid)))
     => (op'.status = 0 /\ op'.uid = db[op'.key].uid)]_vars

\* a Get has resolved a session from its row
C2_Witness ==
  /\ op.name = "Get"
  /\ op.sql = "rows"
  /\ LiveSession(db, pendingDel, op.key)
  /\ op.status = 0
  /\ op.uid = db[op.key].uid

\* the session ids that ever had a row
EverCreated == {p[1] : p \in created}

\* C3: a Get of a session id that never had a row returns status 1, and a Get
\* of the same id that follows a Get of it immediately asks the Record Store
\* nothing.
C3_NeverCreated ==
  [][(op'.name = "Get" /\ op'.key \notin EverCreated) =>
       /\ op'.status = 1
       /\ (op.name = "Get" /\ op.key = op'.key) => op'.sql = "none"]_vars

\* a Get of a never-created id has been answered from a cache tier
C3_Witness ==
  /\ op.name = "Get"
  /\ op.key \notin EverCreated
  /\ op.sql = "none"
  /\ op.status = 1

\* C8 as stated: a Del whose DELETE fails returns 1 and leaves both tiers as
\* they were; a Del whose DELETE succeeds returns 0 and both tiers hold the
\* sentinel for the token.
C8_DelOutcome ==
  [][op'.name = "Del" =>
       IF op'.sql = "fault"
         THEN op'.status = 1 /\ items' = items /\ redis' = redis
         ELSE /\ op'.status = 0
              /\ LocalHolds(items', op'.key, now, Sentinel)
              /\ RedisHolds(redis', op'.key, now, SentinelString)]_vars

\* the Record Store step of a Get yields a positive uid
StoreYields ==
  op.sql = "rows" /\ db[op.key] # NoRow /\ db[op.key].uid > 0

AllReturned == \A c \in Callers : calls[c].pc = "done"
\* the values a tier may hold: the sentinel or a positive uid
HeldValues == {Sentinel} \cup {u \in UidInputs : u > 0}

\* the value every call has returned, and what the tiers hold for its token
ReturnedAndHeld(v, redisValues) ==
  /\ \A c \in Callers : calls[c] = Return(calls[c], v)
  /\ \A c \in Callers :
       /\ LocalHolds(items, calls[c].key, now, v)
       /\ \E str \in redisValues : RedisHolds(redis, calls[c].key, now, str)

\* the calls that asked the Record Store got one and the same result from it
SameOutcome ==
  \A c, d \in Callers :
    (calls[c].sql # "none" /\ calls[d].sql # "none") => calls[c].val = calls[d].val

\* C7 as stated: every call returns, and once all have returned the two
\* tiers hold one and the same value for the token, the one every call wrote.
C7_ReturnAndConverge ==
  /\ <>AllReturned
  /\ [](AllReturned =>
          \E v \in HeldValues : ReturnedAndHeld(v, {FormatInt(v)}))

\* C7 amended: every call returns; when the Record Store has given every call
\* that asked it the same result, all calls have returned that result,
\* LocalCache holds it and Redis holds it or, its writes having failed, nothing.
C7_ReturnAndAgree ==
  /\ <>AllReturned
  /\ []((AllReturned /\ SameOutcome) =>
          \E v \in HeldValues : ReturnedAndHeld(v, {FormatInt(v), <<>>}))

\* all calls have returned after each of them asked the Record Store
C7_Witness ==
  /\ AllReturned
  /\ SameOutcome
  /\ \A c \in Callers : calls[c].sql # "none"

\* ------------------------------------------------- claims on the sweeper
\* C9 as stated: a reload that finds neither sweeper parameter changed stops
\* and starts no sweeper; one that finds a change starts exactly one new
\* sweeper and leaves every Running sweeper with the current parameters.
C9_ReloadRebuildsSweeper ==
  [][reload'.count = reload.count + 1 =>
       IF ~reload'.changed
         THEN cleaners' = cleaners
         ELSE /\ Len(cleaners') = Len(cleaners) + 1
              /\ \A i \in DOMAIN cleaners' :
                   cleaners'[i].running =>
                     /\ cleaners'[i].expireHours = config'.ExpireHours
                     /\ cleaners'[i].cleanInterval = config'.CleanInterval]_vars

\* --------------------------------------------- claims on the cached values
\* a string that this system writes to Redis for a positive uid
PositiveString(str) ==
  ParseInt(str).ok /\ ParseInt(str).val > 0 /\ FormatInt(ParseInt(str).val) = str

\* C11: every value held by LocalCache and by Redis is the sentinel or a
\* positive uid, and no Get has returned status 0 with a uid <= 0.
C11_SentinelOrPositive ==
  /\ \A k \in DOMAIN items : items[k].value = Sentinel \/ items[k].value > 0
  /\ \A key \in DOMAIN redis :
       redis[key].value = SentinelString \/ PositiveString(redis[key].value)
  /\ (op.name = "Get" /\ op.status = 0) => op.uid > 0

\* a Get has read a row whose uid is not positive and cached the sentinel
C11_Witness ==
  /\ op.name = "Get"
  /\ op.sql = "rows"
  /\ db[op.key] # NoRow /\ db[op.key].uid <= 0
  /\ LocalHolds(items, op.key, now, Sentinel)
  /\ op.status = 1

\* C19: a Get that returns status 0 with uid u returns the uid of a row that
\* was inserted for its token at some earlier point, in whichever variant
\* the store returned it.
C19_ReturnedUidWasCreated ==
  (op.name = "Get" /\ op.status = 0) => <<op.key, op.uid>> \in created

\* a Get has returned a uid from a cache tier after the row was removed
C19_Witness ==
  /\ op.name = "Get"
  /\ op.status = 0
  /\ op.sql = "none"
  /\ db[op.key] = NoRow

\* ------------------------------------ claims on Del running along Get calls
\* Del has returned Code 0 and both of its sentinel writes took effect
Invalidated ==
  /\ calls[Deleter].pc = "done"
  /\ calls[Deleter].status = 0
  /\ calls[Deleter].redisSetOk

\* C12 as stated, for an invalidate whose two sentinel writes took effect:
\* once it has completed, neither tier holds the invalidated uid for the
\* token, whatever the Get calls running along it do.
C12_NoStaleUidAfterInvalidate ==
  Invalidated =>
    \A p \in created :
      p[1] = calls[Deleter].key =>
        /\ ~LocalHolds(items, p[1], now, p[2])
        /\ ~RedisHolds(redis, p[1], now, FormatInt(p[2]))

\* ------------------------------------------------- claims on the janitor
\* C13: phase 2 of a janitor cycle deletes a key only if the cycle collected
\* it and the entry it holds had expired when the cycle began, so that an
\* entry set after the collection, and an entry that is not expired, stay.
C13_JanitorDeletesOnlyStillExpired ==
  [][(janitorPc = "phase2" /\ janitorPc' = "idle") =>
       \A k \in DOMAIN items \ DOMAIN items' :
         /\ k \in keysToDelete
         /\ inserted[k] # NoInsert
         /\ inserted[k].t0 + inserted[k].ttl < janitorNow
         /\ inserted[k].t0 + inserted[k].ttl < now]_vars

\* a cycle has deleted one collected key and spared another, set again since
C13_Witness ==
  /\ op.name = "Janitor"
  /\ op.deleted # {}
  /\ op.spared # {}

\* ------------------------------------------- claims on one SessionCleaner
\* the loops of a cleaner that have not returned
LiveLoops(sc) == {j \in DOMAIN sc.loops : sc.loops[j] # "stopped"}

\* C14: Start on a running cleaner changes nothing, and no cleaner ever has
\* more than one loop that has not returned.
C14_StartIdempotent ==
  /\ [](\A i \in DOMAIN cleaners : Cardinality(LiveLoops(cleaners[i])) <= 1)
  /\ [][(reload'.count # reload.count /\ op'.name = "Start"
         /\ cleaners[op'.cleaner].running) => cleaners' = cleaners]_vars

\* Start has been called on a cleaner that was running
C14_Witness ==
  /\ op.name = "Start"
  /\ op.wasRunning
  /\ LiveLoops(cleaners[op.cleaner]) # {}

\* C15: once Stop has returned, the cleaner has no loop that has not
\* returned, and a loop that has returned takes no further step (it asks the
\* Record Store nothing more), wherever the loop was when Stop was called.
C15_StoppedLoopExits ==
  /\ [](\A i \in DOMAIN cleaners :
          (~cleaners[i].running /\ reload.pc = "idle") =>
            LiveLoops(cleaners[i]) = {})
  /\ [][\A i \in DOMAIN cleaners : \A j \in DOMAIN cleaners[i].loops :
          cleaners[i].loops[j] = "stopped" =>
            /\ cleaners'[i].loops[j] = "stopped"
            /\ (mainlock' = SweeperHolder(i) =>
                  \E h \in LiveLoops(cleaners'[i]) : cleaners'[i].loops[h] = "call")]_vars

\* Stop has returned after it was called during the loop's startup delay
C15_Witness ==
  /\ op.name = "Stop"
  /\ op.at = <<"sleeping">>
  /\ reload.pc = "idle"
  /\ ~cleaners[op.cleaner].running

\* ---------------------------------------------- claims on the sweepers
\* C16: a sweep whose request failed leaves its cleaner running and its loop
\* in the select and tells no caller; a loop issues a request
\* only after its startup delay or a tick, one request for each.
C16_FailedSweepKeepsSchedule ==
  [][\A i \in DOMAIN cleaners : \A j \in DOMAIN cleaners[i].loops :
       /\ (cleaners[i].loops[j] = "call" /\ cleaners'[i].loops[j] # "call"
           /\ ~op'.ok) =>
             /\ cleaners'[i] = [cleaners[i] EXCEPT !.loops[j] = "select"]
             /\ cleaners'[i].running = cleaners[i].running
             /\ reload' = reload
             /\ calls' = calls
             /\ mainlock' = 0
       /\ (cleaners[i].loops[j] # "lock" /\ cleaners'[i].loops[j] = "lock") =>
             cleaners[i].loops[j] \in {"sleeping", "select"}
       /\ (cleaners[i].loops[j] # "call" /\ cleaners'[i].loops[j] = "call") =>
             cleaners[i].loops[j] = "lock"]_vars

\* a sweep of a running cleaner has failed and its loop waits in the select
C16_Witness ==
  /\ op.name = "Sweep"
  /\ ~op.ok
  /\ cleaners[op.cleaner].running
  /\ \E j \in DOMAIN cleaners[op.cleaner].loops :
       cleaners[op.cleaner].loops[j] = "select"

\* the cleaners that are running
RunningCleaners == {i \in DOMAIN cleaners : cleaners[i].running}

\* C18: at most one cleaner of the process is running.
C18_AtMostOneRunning == Cardinality(RunningCleaners) <= 1

\* a sweep of some cleaner is inside its Record Store call
SweepInFlight ==
  \E i \in DOMAIN cleaners : \E j \in DOMAIN cleaners[i].loops :
    cleaners[i].loops[j] = "call"

\* C17: while a sweep is inside its Record Store call, a call of Get that has
\* reached its own Record Store request can issue it (the lock it needs is
\* free), and no lock is held during any Record Store call.
C17_SweepBlocksNoCall ==
  /\ SweepInFlight => \A c \in DOMAIN calls :
                        calls[c].pc = "sqlLock" => ENABLED SqlLock(c)
  /\ (SweepInFlight \/ \E c \in DOMAIN calls : calls[c].pc = "sqlCall") =>
       mainlock = 0

\* C20: a reload that waits in Stop, holding sessionLock, gets past it and
\* returns, wherever the loop of the cleaner was when Stop was called.
C20_ReloadReturns == (reload.pc = "stopping") ~> (reload.pc = "idle")

\* a reload has returned whose Stop was called in the middle of a sweep
C20_Witness ==
  /\ op.name = "Stop"
  /\ op.at = <<"call">>
  /\ reload.pc = "idle"
  /\ reload.changed

====
